---- MODULE Spec2Model ----
(***************************************************************************)
(* A model of eos::morphablemodel::PcaModel and of the free functions      *)
(* normalisePcaBasis / unnormalisePcaBasis                                 *)
(* (include/eos/morphablemodel/PcaModel.hpp).                              *)
(*                                                                         *)
(* A cv::Mat is a header on reference-counted storage: copying a Mat, and  *)
(* taking rowRange(), share the storage, clone() makes new storage.  The   *)
(* storage of every matrix the model holds is a variable below, and what   *)
(* the caller can reach is the handle in `ret` plus the three constructor  *)
(* arguments.                                                              *)
(*                                                                         *)
(* Numbers are exact rationals <<num, den>>.  The value sets below hold    *)
(* small integers and eigenvalues that are powers of 4, for which every    *)
(* single-precision operation the code performs (sqrt, 1/x, *, +) is       *)
(* exact, so the rational result is the float result.                      *)
(***************************************************************************)
EXTENDS Integers, Sequences, FiniteSets, TLC

(***************************************************************************)
(* Bounds                                                                  *)
(***************************************************************************)
MaxVertices == 2
MaxComponents == 2
MaxWrites == 1
MaxEngine == 2

(***************************************************************************)
(* Arithmetic                                                              *)
(***************************************************************************)
RECURSIVE GCD(_, _)
GCD(a, b) == IF b = 0 THEN a ELSE GCD(b, a % b)

Abs(x) == IF x < 0 THEN -x ELSE x

RNorm(n, d) ==
    LET g == GCD(Abs(n), d)
    IN  <<n \div g, d \div g>>

R(i) == <<i, 1>>

RMul(x, y) == RNorm(x[1] * y[1], x[2] * y[2])

RAdd(x, y) == RNorm(x[1] * y[2] + y[1] * x[2], x[2] * y[2])

\* 1.0f / x, for x > 0
ROneOver(x) == <<x[2], x[1]>>

ISqrt(k) == CHOOSE r \in 0..k : r * r = k

\* std::sqrt on a perfect square
RSqrt(x) == <<ISqrt(x[1]), ISqrt(x[2])>>

\* 32-bit int
INT_MAX == 2147483647
INT_MIN == -INT_MAX - 1

\* a + b in a 32-bit int that wraps, for b >= 0
WrapAdd(a, b) ==
    IF a > INT_MAX - b
    THEN (a - (INT_MAX - b) - 1) + INT_MIN
    ELSE a + b

\* vertexIndex *= 3 in a 32-bit int that wraps
TimesThree(v) == WrapAdd(WrapAdd(v, v), v)

(***************************************************************************)
(* Matrices: a basis or a mean is a sequence of rows, each a sequence of   *)
(* numbers.  An eigenvalue Mat keeps its shape: n x 1 or 1 x n.            *)
(***************************************************************************)
Rows(M) == Len(M)
Cols(M) == IF Len(M) = 0 THEN 0 ELSE Len(M[1])

ColVec(s) == [rows |-> Len(s), cols |-> 1, data |-> s]
RowVec(s) == [rows |-> 1, cols |-> Len(s), data |-> s]

\* Mat::at<float>(i) on a vector of either shape, i counted from 1
At(E, i) == E.data[i]

(***************************************************************************)
(* normalisePcaBasis, lines 266-281                                        *)
(***************************************************************************)
\* lines 270-273: the loop runs over eigenvalues.rows
sqrtOfEigenvalues(eigenvalues) ==
    [i \in 1..Len(eigenvalues.data) |->
        IF i <= eigenvalues.rows
        THEN RSqrt(At(eigenvalues, i))
        ELSE At(eigenvalues, i)]

\* lines 275-278: each column times its factor, into a new matrix
ScaleColumns(basis, factors) ==
    [r \in 1..Rows(basis) |->
        [c \in 1..Cols(basis) |-> RMul(basis[r][c], factors[c])]]

\* the value returned, and the arguments' storage after the call
normalisePcaBasis(unnormalisedBasis, eigenvalues) ==
    [ret   |-> ScaleColumns(unnormalisedBasis, sqrtOfEigenvalues(eigenvalues)),
     basis |-> unnormalisedBasis,
     eig   |-> eigenvalues]

(***************************************************************************)
(* unnormalisePcaBasis, lines 293-308                                      *)
(***************************************************************************)
\* lines 297-300
oneOverSqrtOfEigenvalues(eigenvalues) ==
    [i \in 1..Len(eigenvalues.data) |->
        IF i <= eigenvalues.rows
        THEN ROneOver(RSqrt(At(eigenvalues, i)))
        ELSE At(eigenvalues, i)]

unnormalisePcaBasis(normalisedBasis, eigenvalues) ==
    [ret   |-> ScaleColumns(normalisedBasis, oneOverSqrtOfEigenvalues(eigenvalues)),
     basis |-> normalisedBasis,
     eig   |-> eigenvalues]

(***************************************************************************)
(* The inputs                                                              *)
(***************************************************************************)
\* <<m, n>>: the smallest model, and the largest within the bounds
Shapes == {<<1, 1>>, <<MaxVertices, MaxComponents>>}

\* a 3m x 1 mean, its entries all different
MeanSet(m) == {[i \in 1..(3 * m) |-> <<R(a + i)>>] : a \in {0}}

\* a 3m x n basis, its rows all different
BasisWith(m, n, a) == [r \in 1..(3 * m) |-> [c \in 1..n |-> R(a * (r + c))]]

\* the bases the free functions are called with
BasisSet(m, n) == {BasisWith(m, n, a) : a \in {-1, 2}}

\* the bases a model is constructed from
ModelBasisSet(m, n) == {BasisWith(m, n, 2)}

\* n positive eigenvalues, whose square roots are exact
EigenvaluesSet(n) ==
    {[i \in 1..n |-> R(4)], [i \in 1..n |-> IF i = 1 THEN R(1) ELSE R(4)]}

TriangleListSet(m) == {<< <<0, m - 1, 0>> >>}

\* what std::random_device gives
Seeds == {0, 1}

\* coefficient vectors of every length up to n + 1: all zero, and 2, 3, ...
CoefficientsSet(n) ==
    {[i \in 1..k |-> R(a * (i + 1))] : a \in {0, 1}, k \in 0..(n + 1)}

SigmaSet == {R(1), R(2)}

\* the i-th standard-normal value an engine seeded with seed gives: the
\* engine is deterministic, what it gives depends on the seed
StandardDraw(seed, i) == R(((seed + i) % 3) - 1)

\* vertex ids up to one past the end, and those around INT_MAX / 3
VertexIndexSet == (0..MaxVertices) \cup {715827882, 715827883}

\* what a caller writes into a matrix element it can reach
WrittenValue == R(16)

\* the element it writes to, of the rows first+1..last it can reach
WrittenElements(first, last, cols) == {<<last, cols>>}

(***************************************************************************)
(* State                                                                   *)
(***************************************************************************)
VARIABLES
    mean,                 \* storage of PcaModel::mean (shared with the argument)
    normalisedPcaBasis,   \* storage of PcaModel::normalisedPcaBasis (shared with the argument)
    unnormalisedPcaBasis, \* storage of PcaModel::unnormalisedPcaBasis
    eigenvalues,          \* storage of PcaModel::eigenvalues (shared with the argument)
    triangleList,         \* PcaModel::triangleList
    engine,               \* PcaModel::engine: its seed and how many values it produced
    ret,                  \* the Mat header the last call returned to the caller
    retStore,             \* the new storage the last call allocated for its result
    lastCall,             \* the last operation: its name, argument and result
    kept,                 \* a drawSample(coefficients) call the caller kept
    writes,               \* number of element writes the caller made
    fnB,                  \* caller's matrix B, argument of the first free-function call
    fnE,                  \* caller's eigenvalue Mat
    fnMid,                \* result of the first call, argument of the second
    fnOut,                \* result of the second call
    fnIn,                 \* the arguments of the last call as they were before it
    fnTrace               \* the free functions called so far

modelVars == <<mean, normalisedPcaBasis, unnormalisedPcaBasis, eigenvalues, triangleList>>
callVars == <<engine, ret, retStore, lastCall, kept, writes>>
fnVars == <<fnB, fnE, fnMid, fnOut, fnIn, fnTrace>>
vars == <<modelVars, callVars, fnVars>>

NoHandle == [store |-> "none", first |-> 0, last |-> 0, from |-> "none"]
NoCall == [op |-> "none", arg |-> << >>, result |-> << >>]
NotKept == [op |-> "none", arg |-> << >>, result |-> << >>, drawn |-> 0]

\* the constructor, lines 67-72
PcaModel(meanArg, pcaBasis, eigenvaluesArg, triangleListArg, seed) ==
    [mean                 |-> meanArg,
     normalisedPcaBasis   |-> pcaBasis,
     eigenvalues          |-> eigenvaluesArg,
     triangleList         |-> triangleListArg,
     engine               |-> [seed |-> seed, drawn |-> 0],
     unnormalisedPcaBasis |-> unnormalisePcaBasis(pcaBasis, eigenvaluesArg).ret]

Constructed(model) ==
    /\ mean = model.mean
    /\ normalisedPcaBasis = model.normalisedPcaBasis
    /\ unnormalisedPcaBasis = model.unnormalisedPcaBasis
    /\ eigenvalues = model.eigenvalues
    /\ triangleList = model.triangleList
    /\ engine = model.engine
    /\ ret = NoHandle
    /\ retStore = << >>
    /\ lastCall = NoCall
    /\ kept = NotKept
    /\ writes = 0

NoFunctionCalls ==
    /\ fnB = << >>
    /\ fnE = ColVec(<< >>)
    /\ fnMid = << >>
    /\ fnOut = << >>
    /\ fnIn = << >>
    /\ fnTrace = << >>

Init ==
    /\ \E shape \in Shapes :
         \E meanArg \in MeanSet(shape[1]), pcaBasis \in ModelBasisSet(shape[1], shape[2]),
            ev \in EigenvaluesSet(shape[2]), tl \in TriangleListSet(shape[1]),
            seed \in Seeds :
              Constructed(PcaModel(meanArg, pcaBasis, ColVec(ev), tl, seed))
    /\ NoFunctionCalls

(***************************************************************************)
(* The accessors and the sampling functions, as functions of the state.    *)
(* A function that returns a Mat gives the header it returns (`handle`:    *)
(* which storage, which rows) and the content of the storage it allocated  *)
(* for it (`fresh`), if any.                                               *)
(***************************************************************************)
Handle(store, first, last, from) ==
    [store |-> store, first |-> first, last |-> last, from |-> from]

\* lines 79-83
getNumberOfPrincipalComponents == Cols(normalisedPcaBasis)

\* lines 93-97
getDataDimension == Rows(normalisedPcaBasis)

\* lines 104-107: a copy of the vector
getTriangleList == triangleList

\* lines 114-117: a copy of the header, the storage is shared
getMean ==
    [handle |-> Handle("mean", 0, Rows(mean), "getMean"), fresh |-> << >>]

Outcome(kind, value) == [kind |-> kind, value |-> value]

\* what the read of a float outside the storage can give
Garbage == R(-7)

\* lines 125-132: the set of outcomes.  vertexIndex *= 3 overflows the int
\* for vertexIndex > INT_MAX / 3, which is undefined: the builds differ
\* (wrap and read outside the storage, wrap and fault, compare in a wider
\* type and throw).
getMeanAtPoint(vertexIndex) ==
    LET idx == TimesThree(vertexIndex)
    IN  IF vertexIndex > INT_MAX \div 3
        THEN {Outcome("out_of_range", << >>),
              Outcome("fault", << >>),
              Outcome("value", <<Garbage, Garbage, Garbage, R(1)>>)}
        ELSE IF idx >= Rows(mean)
        THEN {Outcome("out_of_range", << >>)}
        ELSE {Outcome("value",
                <<mean[idx + 1][1], mean[idx + 2][1], mean[idx + 3][1], R(1)>>)}

\* Resize with the padding left out
ResizeOmitted(coefficients, n) == coefficients

\* Resize with the new elements taken from the engine instead of 0
ResizeWithDraws(coefficients, n) ==
    IF Len(coefficients) < n
    THEN [i \in 1..n |->
            IF i <= Len(coefficients) THEN coefficients[i] ELSE R(engine.drawn)]
    ELSE coefficients

\* lines 164-167: coefficients.resize(n) when shorter, the new elements are 0
Resize(coefficients, n) ==
    IF Len(coefficients) < n
    THEN [i \in 1..n |-> IF i <= Len(coefficients) THEN coefficients[i] ELSE R(0)]
    ELSE coefficients

RECURSIVE Dot(_, _, _)
Dot(row, alphas, k) ==
    IF k = 0 THEN R(0)
    ELSE RAdd(Dot(row, alphas, k - 1), RMul(row[k], alphas[k]))

\* line 170: mean + normalisedPcaBasis * alphas.  cv::gemm asserts that the
\* inner dimensions agree and throws cv::Exception when they do not.
MeanPlusBasisTimes(alphas) ==
    IF Len(alphas) # Cols(normalisedPcaBasis)
    THEN Outcome("cv_exception", << >>)
    ELSE Outcome("value",
            [r \in 1..Rows(normalisedPcaBasis) |->
                <<RAdd(mean[r][1], Dot(normalisedPcaBasis[r], alphas, Len(alphas)))>>])

\* lines 162-173
drawSample(coefficients) ==
    MeanPlusBasisTimes(Resize(coefficients, getNumberOfPrincipalComponents))

\* lines 143-149: n values from normal_distribution<float>(0, sigma)(engine),
\* each sigma times the next standard draw of the engine
DrawnAlphas(sigma) ==
    [i \in 1..getNumberOfPrincipalComponents |->
        RMul(sigma, StandardDraw(engine.seed, engine.drawn + i))]

\* lines 147-149: the engine after it produced the n values
EngineAfterDraws(n) == [engine EXCEPT !.drawn = @ + n]

\* getNormalisedPcaBasis with the clone() left out
getNormalisedPcaBasisShared ==
    [handle |-> Handle("normalisedPcaBasis", 0, Rows(normalisedPcaBasis),
                       "getNormalisedPcaBasis"),
     fresh  |-> << >>]

\* lines 186-189: clone() allocates new storage
getNormalisedPcaBasis ==
    [handle |-> Handle("fresh", 0, Rows(normalisedPcaBasis), "getNormalisedPcaBasis"),
     fresh  |-> normalisedPcaBasis]

\* lines 199-203: rowRange() shares the storage
getNormalisedPcaBasisAt(vertexId) ==
    [handle |-> Handle("normalisedPcaBasis", 3 * vertexId, 3 * vertexId + 3,
                       "getNormalisedPcaBasisAt"),
     fresh  |-> << >>]

\* lines 215-218
getUnnormalisedPcaBasis ==
    [handle |-> Handle("fresh", 0, Rows(unnormalisedPcaBasis), "getUnnormalisedPcaBasis"),
     fresh  |-> unnormalisedPcaBasis]

\* getUnnormalisedPcaBasisAt with the vertexId *= 3 left out
getUnnormalisedPcaBasisAtUnscaled(vertexId) ==
    [handle |-> Handle("unnormalisedPcaBasis", vertexId, vertexId + 3,
                       "getUnnormalisedPcaBasisAt"),
     fresh  |-> << >>]

\* lines 227-231
getUnnormalisedPcaBasisAt(vertexId) ==
    [handle |-> Handle("unnormalisedPcaBasis", 3 * vertexId, 3 * vertexId + 3,
                       "getUnnormalisedPcaBasisAt"),
     fresh  |-> << >>]

\* lines 239-242
getEigenvalue(index) == At(eigenvalues, index + 1)

\* the storage a header points to
Storage(store) ==
    CASE store = "mean" -> mean
      [] store = "normalisedPcaBasis" -> normalisedPcaBasis
      [] store = "unnormalisedPcaBasis" -> unnormalisedPcaBasis
      [] store = "fresh" -> retStore
      [] OTHER -> << >>

\* the rows a header shows
Deref(h) == SubSeq(Storage(h.store), h.first + 1, h.last)

(***************************************************************************)
(* The public operations                                                   *)
(***************************************************************************)
NoMat == [handle |-> NoHandle, fresh |-> << >>]

\* the caller receives the result; a Mat result replaces the Mat it held
Returned(op, arg, result, mat) ==
    /\ lastCall' = [op |-> op, arg |-> arg, result |-> result]
    /\ ret' = mat.handle
    /\ retStore' = mat.fresh

GetNumberOfPrincipalComponents ==
    /\ Returned("getNumberOfPrincipalComponents", << >>,
                getNumberOfPrincipalComponents, NoMat)
    /\ UNCHANGED <<modelVars, engine, kept, writes, fnVars>>

GetDataDimension ==
    /\ Returned("getDataDimension", << >>, getDataDimension, NoMat)
    /\ UNCHANGED <<modelVars, engine, kept, writes, fnVars>>

GetTriangleList ==
    /\ Returned("getTriangleList", << >>, getTriangleList, NoMat)
    /\ UNCHANGED <<modelVars, engine, kept, writes, fnVars>>

GetMean ==
    /\ Returned("getMean", << >>, << >>, getMean)
    /\ UNCHANGED <<modelVars, engine, kept, writes, fnVars>>

GetMeanAtPoint(vertexIndex) ==
    /\ \E outcome \in getMeanAtPoint(vertexIndex) :
         Returned("getMeanAtPoint", vertexIndex, outcome, NoMat)
    /\ UNCHANGED <<modelVars, engine, kept, writes, fnVars>>

\* DrawSampleCoefficients with a draw taken from the engine
DrawSampleCoefficientsDrawing(coefficients) ==
    /\ LET outcome == drawSample(coefficients)
       IN  Returned("drawSample", coefficients, outcome,
                    IF outcome.kind = "value"
                    THEN [handle |-> Handle("fresh", 0, Len(outcome.value), "drawSample"),
                          fresh  |-> outcome.value]
                    ELSE NoMat)
    /\ engine' = EngineAfterDraws(1)
    /\ UNCHANGED <<modelVars, kept, writes, fnVars>>

\* lines 162-173: the sample is a new Mat
DrawSampleCoefficients(coefficients) ==
    /\ LET outcome == drawSample(coefficients)
       IN  Returned("drawSample", coefficients, outcome,
                    IF outcome.kind = "value"
                    THEN [handle |-> Handle("fresh", 0, Len(outcome.value), "drawSample"),
                          fresh  |-> outcome.value]
                    ELSE NoMat)
    /\ UNCHANGED <<modelVars, engine, kept, writes, fnVars>>

\* lines 141-152
DrawSampleSigma(sigma) ==
    /\ engine.drawn + getNumberOfPrincipalComponents <= MaxEngine
    /\ LET outcome == drawSample(DrawnAlphas(sigma))
       IN  Returned("drawSampleSigma", sigma, outcome,
                    [handle |-> Handle("fresh", 0, Len(outcome.value), "drawSampleSigma"),
                     fresh  |-> outcome.value])
    /\ engine' = EngineAfterDraws(getNumberOfPrincipalComponents)
    /\ UNCHANGED <<modelVars, kept, writes, fnVars>>

GetNormalisedPcaBasis ==
    /\ Returned("getNormalisedPcaBasis", << >>, << >>, getNormalisedPcaBasis)
    /\ UNCHANGED <<modelVars, engine, kept, writes, fnVars>>

GetNormalisedPcaBasisAt(vertexId) ==
    /\ Returned("getNormalisedPcaBasisAt", vertexId, << >>,
                getNormalisedPcaBasisAt(vertexId))
    /\ UNCHANGED <<modelVars, engine, kept, writes, fnVars>>

GetUnnormalisedPcaBasis ==
    /\ Returned("getUnnormalisedPcaBasis", << >>, << >>, getUnnormalisedPcaBasis)
    /\ UNCHANGED <<modelVars, engine, kept, writes, fnVars>>

GetUnnormalisedPcaBasisAt(vertexId) ==
    /\ Returned("getUnnormalisedPcaBasisAt", vertexId, << >>,
                getUnnormalisedPcaBasisAt(vertexId))
    /\ UNCHANGED <<modelVars, engine, kept, writes, fnVars>>

GetEigenvalue(index) ==
    /\ Returned("getEigenvalue", index, getEigenvalue(index), NoMat)
    /\ UNCHANGED <<modelVars, engine, kept, writes, fnVars>>

ValidVertexIds == 0..((getDataDimension \div 3) - 1)

(***************************************************************************)
(* The caller's writes into the storage it can reach                       *)
(***************************************************************************)
\* element (i, j) of one storage is overwritten, the others stay
StoreWrite(store, i, j) ==
    /\ mean' = IF store = "mean" THEN [mean EXCEPT ![i][j] = WrittenValue] ELSE mean
    /\ normalisedPcaBasis' =
         IF store = "normalisedPcaBasis"
         THEN [normalisedPcaBasis EXCEPT ![i][j] = WrittenValue]
         ELSE normalisedPcaBasis
    /\ unnormalisedPcaBasis' =
         IF store = "unnormalisedPcaBasis"
         THEN [unnormalisedPcaBasis EXCEPT ![i][j] = WrittenValue]
         ELSE unnormalisedPcaBasis
    /\ eigenvalues' =
         IF store = "eigenvalues"
         THEN [eigenvalues EXCEPT !.data[i] = WrittenValue]
         ELSE eigenvalues
    /\ retStore' = IF store = "fresh" THEN [retStore EXCEPT ![i][j] = WrittenValue] ELSE retStore

Written(via, store, i, j) ==
    /\ writes < MaxWrites
    /\ writes' = writes + 1
    /\ StoreWrite(store, i, j)
    /\ lastCall' = [op |-> "write",
                    arg |-> [via |-> via, store |-> store, row |-> i, col |-> j],
                    result |-> << >>]
    /\ UNCHANGED <<triangleList, engine, ret, kept, fnVars>>

\* line 67: the members mean, normalisedPcaBasis and eigenvalues are copies
\* of the argument headers, so the caller's matrices are the model's storage
WriteMeanArgument ==
    \E e \in WrittenElements(0, Rows(mean), 1) : Written("argument", "mean", e[1], e[2])

WriteBasisArgument ==
    \E e \in WrittenElements(0, Rows(normalisedPcaBasis), Cols(normalisedPcaBasis)) :
        Written("argument", "normalisedPcaBasis", e[1], e[2])

WriteEigenvaluesArgument ==
    \E e \in WrittenElements(0, Len(eigenvalues.data), 1) :
        Written("argument", "eigenvalues", e[1], e[2])

\* a write through the Mat the last call returned
WriteReturned ==
    /\ ret.store # "none"
    /\ \E e \in WrittenElements(ret.first, ret.last, Cols(Storage(ret.store))) :
         Written(ret.from, ret.store, e[1], e[2])

\* the caller keeps a sample to compare later ones with
KeepSample ==
    /\ lastCall.op = "drawSample"
    /\ kept = NotKept
    /\ kept' = [op |-> lastCall.op, arg |-> lastCall.arg, result |-> lastCall.result,
                drawn |-> engine.drawn]
    /\ UNCHANGED <<modelVars, engine, ret, retStore, lastCall, writes, fnVars>>

PublicOperation ==
    \/ GetNumberOfPrincipalComponents
    \/ GetDataDimension
    \/ GetTriangleList
    \/ GetMean
    \/ \E vertexIndex \in VertexIndexSet : GetMeanAtPoint(vertexIndex)
    \/ \E coefficients \in CoefficientsSet(getNumberOfPrincipalComponents) :
         DrawSampleCoefficients(coefficients)
    \/ \E sigma \in SigmaSet : DrawSampleSigma(sigma)
    \/ GetNormalisedPcaBasis
    \/ \E vertexId \in ValidVertexIds : GetNormalisedPcaBasisAt(vertexId)
    \/ GetUnnormalisedPcaBasis
    \/ \E vertexId \in ValidVertexIds : GetUnnormalisedPcaBasisAt(vertexId)
    \/ \E index \in 0..(getNumberOfPrincipalComponents - 1) : GetEigenvalue(index)

CallerWrite ==
    \/ WriteMeanArgument
    \/ WriteBasisArgument
    \/ WriteEigenvaluesArgument
    \/ WriteReturned

\* the model and a caller that also writes into the matrices it holds
Next == PublicOperation \/ CallerWrite

Spec == Init /\ [][Next]_vars

\* the model and a caller that only calls its public operations
NextPublic == PublicOperation \/ KeepSample

SpecPublic == Init /\ [][NextPublic]_vars

(***************************************************************************)
(* The free functions, called twice in a row by a caller                   *)
(***************************************************************************)
Apply(op, basis, eig) ==
    IF op = "normalise"
    THEN normalisePcaBasis(basis, eig)
    ELSE unnormalisePcaBasis(basis, eig)

FirstCall(op) ==
    /\ fnTrace = << >>
    /\ LET r == Apply(op, fnB, fnE)
       IN  /\ fnMid' = r.ret
           /\ fnB' = r.basis
           /\ fnE' = r.eig
    /\ fnIn' = [basis |-> fnB, eig |-> fnE]
    /\ fnTrace' = <<op>>
    /\ UNCHANGED <<fnOut, modelVars, callVars>>

SecondCall(op) ==
    /\ Len(fnTrace) = 1
    /\ LET r == Apply(op, fnMid, fnE)
       IN  /\ fnOut' = r.ret
           /\ fnMid' = r.basis
           /\ fnE' = r.eig
    /\ fnIn' = [basis |-> fnMid, eig |-> fnE]
    /\ fnTrace' = Append(fnTrace, op)
    /\ UNCHANGED <<fnB, modelVars, callVars>>

InitFn ==
    /\ Constructed(PcaModel(<<<<R(1)>>, <<R(2)>>, <<R(3)>>>>,
                            <<<<R(1)>>, <<R(0)>>, <<R(0)>>>>,
                            ColVec(<<R(4)>>), << >>, 0))
    /\ \E m \in 1..MaxVertices, n \in 1..MaxComponents :
         /\ fnB \in BasisSet(m, n)
         /\ \E ev \in EigenvaluesSet(n) : fnE \in {ColVec(ev), RowVec(ev)}
    /\ fnMid = << >>
    /\ fnOut = << >>
    /\ fnIn = << >>
    /\ fnTrace = << >>

NextFn ==
    \/ \E op \in {"normalise", "unnormalise"} : FirstCall(op)
    \/ \E op \in {"normalise", "unnormalise"} : SecondCall(op)

SpecFn == InitFn /\ [][NextFn]_vars

(***************************************************************************)
(* Properties                                                              *)
(***************************************************************************)
nComponents == getNumberOfPrincipalComponents
vertexCount == getDataDimension \div 3

OneOverSqrt(x) == ROneOver(RSqrt(x))

\* C1: at every moment of the model's life, whatever the caller does with
\* the constructor arguments and the returned matrices, every column j of
\* the unnormalised basis is column j of the normalised basis times
\* 1/sqrt(eigenvalues[j]).
C1_BasesConsistent ==
    \A r \in 1..Rows(normalisedPcaBasis), c \in 1..Cols(normalisedPcaBasis) :
        unnormalisedPcaBasis[r][c] =
            RMul(normalisedPcaBasis[r][c], OneOverSqrt(At(eigenvalues, c)))

\* C2: meanAtVertex(v) fails with the out-of-range error exactly when
\* v * 3 >= dataDimension(), for every v >= 0, and succeeds otherwise.
C2_OutOfRangeExactly ==
    lastCall.op = "getMeanAtPoint" =>
        IF lastCall.arg >= vertexCount
        THEN lastCall.result.kind = "out_of_range"
        ELSE lastCall.result.kind = "value"

\* the given coefficients only, without the padding
RECURSIVE GivenSum(_, _, _)
GivenSum(row, c, k) ==
    IF k = 0 THEN R(0)
    ELSE RAdd(RMul(row[k], c[k]), GivenSum(row, c, k - 1))

Zeros(k) == [i \in 1..k |-> R(0)]

\* C3: for a coefficient vector c no longer than n, drawSample(c) is
\* mean + normalisedBasis * (c padded with zeros to length n): element r is
\* mean[r] plus the sum of basis[r][k] * c[k] over the given k, the result
\* is that of the explicitly padded vector, and an empty or all-zero c
\* gives the mean.
C3_DrawSamplePadsWithZeros ==
    (lastCall.op = "drawSample" /\ Len(lastCall.arg) <= nComponents) =>
        LET c == lastCall.arg
            sample == lastCall.result
        IN  /\ sample.kind = "value"
            /\ Len(sample.value) = Rows(mean)
            /\ \A r \in 1..Rows(mean) :
                 sample.value[r] =
                    <<RAdd(mean[r][1], GivenSum(normalisedPcaBasis[r], c, Len(c)))>>
            /\ sample = drawSample(c \o Zeros(nComponents - Len(c)))
            /\ (c = Zeros(Len(c)) => sample.value = mean)

C3_Witness ==
    /\ lastCall.op = "drawSample"
    /\ nComponents = 2
    /\ lastCall.arg = <<R(2)>>
    /\ lastCall.result.kind = "value"
    /\ lastCall.result.value # mean

\* C4: two drawSample(coefficients) calls with the same coefficients on the
\* same model return the same vector, whatever public operations (sigma
\* draws that advance the engine included) ran before or between them.
C4_SameCoefficientsSameSample ==
    (lastCall.op = "drawSample" /\ kept.op = "drawSample" /\ kept.arg = lastCall.arg)
        => lastCall.result = kept.result

C4_Witness ==
    /\ lastCall.op = "drawSample"
    /\ kept.op = "drawSample"
    /\ kept.arg = lastCall.arg
    /\ Len(kept.arg) < nComponents
    /\ kept.drawn < engine.drawn

\* C5: no public operation changes the mean, either basis, the eigenvalues
\* or the triangle list, and the engine is changed by the sigma-based
\* drawSample only.
C5_OnlyTheEngineChanges ==
    [][/\ UNCHANGED modelVars
       /\ engine' # engine => lastCall'.op = "drawSampleSigma"]_vars

C5_Witness ==
    /\ lastCall.op = "drawSampleSigma"
    /\ engine.drawn > 0

FullBasisAccessors == {"getNormalisedPcaBasis", "getUnnormalisedPcaBasis"}

\* C6: the matrix returned by the full-basis accessors shares no storage
\* with the model: a write the caller makes into it changes neither basis
\* (nor the mean or the eigenvalues), for both normalisations.
C6_FullBasisIsACopy ==
    [][(/\ lastCall'.op = "write"
        /\ lastCall.op \in FullBasisAccessors
        /\ lastCall'.arg.via \in FullBasisAccessors)
       => UNCHANGED <<mean, normalisedPcaBasis, unnormalisedPcaBasis, eigenvalues>>]_vars

C6_Witness ==
    /\ lastCall.op = "write"
    /\ lastCall.arg.via = "getNormalisedPcaBasis"
    /\ ret.from = "getNormalisedPcaBasis"
    /\ Deref(ret) # normalisedPcaBasis

\* C7: for every basis B and every positive eigenvalue vector E of the
\* length of a row of B, unnormalise(normalise(B, E), E) = B and
\* normalise(unnormalise(B, E), E) = B, and no call changes its arguments.
C7_RoundTrip ==
    /\ (Len(fnTrace) = 2 /\ fnTrace[1] # fnTrace[2]) => fnOut = fnB
    /\ Len(fnTrace) = 1 => (fnB = fnIn.basis /\ fnE = fnIn.eig)
    /\ Len(fnTrace) = 2 => (fnMid = fnIn.basis /\ fnE = fnIn.eig)

\* C8: normalise(B, E) is B with column j times sqrt(E[j]) and
\* unnormalise(B, E) is B with column j times 1/sqrt(E[j]), of the shape of
\* B, whether E is a column or a row vector.
C8_ColumnScaling ==
    Len(fnTrace) = 1 =>
        /\ Rows(fnMid) = Rows(fnB)
        /\ \A r \in 1..Rows(fnB) :
             /\ Len(fnMid[r]) = Len(fnB[r])
             /\ \A c \in 1..Cols(fnB) :
                  fnMid[r][c] =
                     RMul(fnB[r][c],
                          IF fnTrace[1] = "normalise"
                          THEN RSqrt(At(fnE, c))
                          ELSE OneOverSqrt(At(fnE, c)))

\* rows 3v, 3v+1, 3v+2 (counted from 0) of a matrix
VertexRows(M, v) == <<M[3 * v + 1], M[3 * v + 2], M[3 * v + 3]>>

\* C9: for every vertex v < vertexCount, basisAtVertex(v) of either
\* normalisation is rows 3v, 3v+1, 3v+2 of the full basis of that
\* normalisation, and meanAtVertex(v) is (mean[3v], mean[3v+1], mean[3v+2], 1).
C9_PerVertex ==
    /\ lastCall.op = "getNormalisedPcaBasisAt" =>
         Deref(ret) = VertexRows(getNormalisedPcaBasis.fresh, lastCall.arg)
    /\ lastCall.op = "getUnnormalisedPcaBasisAt" =>
         Deref(ret) = VertexRows(getUnnormalisedPcaBasis.fresh, lastCall.arg)
    /\ (lastCall.op = "getMeanAtPoint" /\ lastCall.arg < vertexCount) =>
         /\ lastCall.result.kind = "value"
         /\ lastCall.result.value =
              VertexRows(mean, lastCall.arg)[1] \o VertexRows(mean, lastCall.arg)[2]
                \o VertexRows(mean, lastCall.arg)[3] \o <<R(1)>>

C9_Witness ==
    /\ lastCall.op = "getUnnormalisedPcaBasisAt"
    /\ lastCall.arg = 1
    /\ nComponents = 2
    /\ Deref(ret) # VertexRows(normalisedPcaBasis, 1)

\* C10: drawSample(coefficients) with more than n coefficients completes
\* and returns a vector, raising nothing, and leaves the model as it was.
C10_LongerInputCompletes ==
    [][(lastCall'.op = "drawSample" /\ Len(lastCall'.arg) > nComponents) =>
          /\ lastCall'.result.kind = "value"
          /\ UNCHANGED <<modelVars, engine>>]_vars

====
